---- MODULE Spec2Model ----
(***************************************************************************)
(* A model of the identity/room mapping engine and message-relay            *)
(* orchestrator of matrix-puppet-server (src/src/base.ts, class Base, and   *)
(* the read-receipt listener of class Puppet).                              *)
(*                                                                          *)
(* Every exposed handler invocation is a process.  A process is suspended   *)
(* at exactly one pending external call (room directory, content store,     *)
(* adapter); one action resolves that call (its effect on the directory     *)
(* and its outcome) and runs the synchronous continuation up to the next    *)
(* call the code issues.  Work that the code starts without chaining it to  *)
(* the promise it returns keeps running after the handler has settled: the  *)
(* field `ret` is the state of the returned promise, `pc` and `ipc` are     *)
(* the positions of the pending work.                                       *)
(*                                                                          *)
(* Strings whose characters matter (message bodies, identifiers, aliases)   *)
(* are sequences of one-character strings.                                  *)
(*                                                                          *)
(* PureSpec applies the pure functions of the bridge (the identifier codec, *)
(* the alias derivation, the tagger) to inputs drawn at the start.          *)
(***************************************************************************)
EXTENDS Integers, Sequences, FiniteSets, TLC

(***************************************************************************)
(* Bounds of the model.                                                     *)
(***************************************************************************)
NumProcs == 2      \* handler invocations that may be in flight at once
MaxOps == 2        \* handler invocations in a run that does not overlap them
MaxFaults == 1     \* external calls the environment lets fail in a run
MaxUnjoinable == 2 \* joins the environment answers "No known servers" in a run
MaxRooms == 3      \* rooms the directory can create in a run
MaxTextLen == 2    \* length of a message body before tagging
MaxIdLen == 2      \* length of a third-party identifier given to the codec

Procs == 1..NumProcs

(***************************************************************************)
(* Text.                                                                    *)
(***************************************************************************)
SP == " "
ZWNBSP == "FEFF"                      \* the character U+FEFF
Chars == {"a", "!", SP, ZWNBSP}

RECURSIVE SeqsUpTo(_, _)
SeqsUpTo(S, n) ==
  IF n = 0 THEN {<<>>}
  ELSE LET shorter == SeqsUpTo(S, n - 1)
       IN  shorter \cup {Append(s, c) : s \in shorter, c \in S}

Texts == SeqsUpTo(Chars, MaxTextLen)

EndsWith(text, suffix) ==
  /\ Len(text) >= Len(suffix)
  /\ SubSeq(text, Len(text) - Len(suffix) + 1, Len(text)) = suffix

Contains(text, lit) ==
  \E i \in 1..(Len(text) - Len(lit) + 1) : SubSeq(text, i, i + Len(lit) - 1) = lit

\* A regular expression of the shape the tagger uses: a literal, optionally
\* anchored at the end of the input by `$`.
RegExpTest(pattern, text) ==
  IF pattern.atEnd THEN EndsWith(text, pattern.lit) ELSE Contains(text, pattern.lit)

defaultDeduplicationTag == <<SP, ZWNBSP>>
defaultDeduplicationTagPattern == [lit |-> <<SP, ZWNBSP>>, atEnd |-> TRUE]

\* The optional Deduplication argument of the constructor: absent, or a
\* record whose fields tag and pattern may each be absent.
NoDedupe == [tag |-> <<>>, pattern |-> [lit |-> <<>>, atEnd |-> FALSE]]

\* Deduplication arguments: none, a marker alone, a pattern alone, a marker
\* with its own literal anchored at the end, and a marker with its own
\* literal unanchored.
Dedupes ==
  { NoDedupe,
    [tag |-> <<"!">>, pattern |-> [lit |-> <<>>, atEnd |-> FALSE]],
    [tag |-> <<>>, pattern |-> [lit |-> <<"!">>, atEnd |-> TRUE]],
    [tag |-> <<"!">>, pattern |-> [lit |-> <<"!">>, atEnd |-> TRUE]],
    [tag |-> <<"!">>, pattern |-> [lit |-> <<"!">>, atEnd |-> FALSE]] }

(***************************************************************************)
(* Identifier codec: a2b and b2a.  A JavaScript string is a sequence of     *)
(* code units (numbers); a base64 token is a sequence of characters.        *)
(***************************************************************************)
B64Alphabet ==
  << "A","B","C","D","E","F","G","H","I","J","K","L","M","N","O","P",
     "Q","R","S","T","U","V","W","X","Y","Z","a","b","c","d","e","f",
     "g","h","i","j","k","l","m","n","o","p","q","r","s","t","u","v",
     "w","x","y","z","0","1","2","3","4","5","6","7","8","9","+","/" >>

\* new Buffer(string): the UTF-8 encoding of the string (code units < 2048).
RECURSIVE Utf8Bytes(_)
Utf8Bytes(s) ==
  IF s = <<>> THEN <<>>
  ELSE LET c == Head(s)
       IN  (IF c < 128 THEN <<c>> ELSE <<192 + (c \div 64), 128 + (c % 64)>>)
             \o Utf8Bytes(Tail(s))

EncodeGroup(bs) ==
  LET b1 == bs[1]
      b2 == IF Len(bs) >= 2 THEN bs[2] ELSE 0
      b3 == IF Len(bs) >= 3 THEN bs[3] ELSE 0
      n  == b1 * 65536 + b2 * 256 + b3
      c1 == B64Alphabet[(n \div 262144) + 1]
      c2 == B64Alphabet[((n \div 4096) % 64) + 1]
      c3 == B64Alphabet[((n \div 64) % 64) + 1]
      c4 == B64Alphabet[(n % 64) + 1]
  IN  IF Len(bs) = 1 THEN <<c1, c2, "=", "=">>
      ELSE IF Len(bs) = 2 THEN <<c1, c2, c3, "=">>
      ELSE <<c1, c2, c3, c4>>

RECURSIVE Base64Encode(_)
Base64Encode(bs) ==
  IF bs = <<>> THEN <<>>
  ELSE IF Len(bs) <= 3 THEN EncodeGroup(bs)
  ELSE EncodeGroup(SubSeq(bs, 1, 3)) \o Base64Encode(SubSeq(bs, 4, Len(bs)))

a2b(a) == Base64Encode(Utf8Bytes(a))

\* The value of a base64 character, or 64 for a character that has none.
\* Node's decoder also reads the URL-safe characters - and _.
Sextet(c) ==
  IF c = "-" THEN 62
  ELSE IF c = "_" THEN 63
  ELSE IF \E i \in 1..64 : B64Alphabet[i] = c
       THEN (CHOOSE i \in 1..64 : B64Alphabet[i] = c) - 1
  ELSE 64

\* The sextets of a token up to its padding, characters outside the
\* alphabet skipped.
RECURSIVE Sextets(_)
Sextets(b) ==
  IF b = <<>> \/ Head(b) = "=" THEN <<>>
  ELSE IF Sextet(Head(b)) = 64 THEN Sextets(Tail(b))
  ELSE <<Sextet(Head(b))>> \o Sextets(Tail(b))

RECURSIVE DecodeSextets(_)
DecodeSextets(x) ==
  IF Len(x) < 2 THEN <<>>
  ELSE LET n == x[1] * 262144 + x[2] * 4096
                  + (IF Len(x) >= 3 THEN x[3] * 64 ELSE 0)
                  + (IF Len(x) >= 4 THEN x[4] ELSE 0)
           y1 == n \div 65536
           y2 == (n \div 256) % 256
           y3 == n % 256
       IN  IF Len(x) = 2 THEN <<y1>>
           ELSE IF Len(x) = 3 THEN <<y1, y2>>
           ELSE <<y1, y2, y3>> \o DecodeSextets(SubSeq(x, 5, Len(x)))

\* Buffer.toString('ascii') masks every byte to seven bits.
b2a(b) == LET bytes == DecodeSextets(Sextets(b))
          IN  [i \in 1..Len(bytes) |-> bytes[i] % 128]

(***************************************************************************)
(* The identity pair, the puppet account and the derived names.             *)
(***************************************************************************)
Network == <<"n">>                    \* this.network
IdentityId == <<"i">>                 \* this.identityPair.id
Domain == <<"d">>                     \* the home server's name
PuppetUserId == "@puppet"             \* this.puppet.userId
OtherUserId == "@other"               \* any other home-network account
Senders == {PuppetUserId, OtherUserId}

StatusRoomToken == <<"s","t","a","t","u","s","_","r","o","o","m">>
PuppetInfix == <<"_","p","u","p","p","e","t","_">>

RawRoomIds == {<<114>>}               \* third-party room ids: "r"
RawUserIds == {<<117>>}               \* third-party user ids: "u"
RoomTokens == {a2b(x) : x \in RawRoomIds}
UserTokens == {a2b(x) : x \in RawUserIds}

\* this.network+"_puppet_"+this.identityPair.id+"_"+id for a bridge constructed
\* with the given network and identity pair.
LocalPartOf(network, identityId, id) ==
  network \o PuppetInfix \o identityId \o <<"_">> \o id

getRoomAliasLocalPartFromThirdPartyRoomId(id) ==
  LocalPartOf(Network, IdentityId, id)

\* puppet.makeRoomAlias: the full alias of a local part.
makeRoomAlias(localPart) == <<"#">> \o localPart \o <<":">> \o Domain

getRoomAliasFromThirdPartyRoomId(id) ==
  makeRoomAlias(getRoomAliasLocalPartFromThirdPartyRoomId(id))

AliasNames == {getRoomAliasFromThirdPartyRoomId(t) : t \in RoomTokens \cup {StatusRoomToken}}

\* alias.split(':')[0]
RECURSIVE BeforeColon(_)
BeforeColon(alias) ==
  IF alias = <<>> \/ Head(alias) = ":" THEN <<>>
  ELSE <<Head(alias)>> \o BeforeColon(Tail(alias))

\* The characters of the class [a-zA-Z0-9+\/=_].
PatternChars == {B64Alphabet[i] : i \in 1..64} \cup {"=", "_"}

NoMatch == <<>>

\* localpart.match(patt) for patt = ^#{network}_puppet_{id}_([a-zA-Z0-9+\/=_]+)$ :
\* the captured group, or NoMatch.
MatchAliasPattern(localpart) ==
  LET prefix == <<"#">> \o Network \o PuppetInfix \o IdentityId \o <<"_">>
      n      == Len(prefix)
  IN  IF /\ Len(localpart) > n
         /\ SubSeq(localpart, 1, n) = prefix
         /\ \A i \in (n + 1)..Len(localpart) : localpart[i] \in PatternChars
      THEN SubSeq(localpart, n + 1, Len(localpart))
      ELSE NoMatch

\* room.getAliases().reduce(...): the group of the last alias that matches.
RECURSIVE ReduceAliases(_, _)
ReduceAliases(aliases, result) ==
  IF aliases = <<>> THEN result
  ELSE LET m == MatchAliasPattern(BeforeColon(Head(aliases)))
       IN  ReduceAliases(Tail(aliases), IF m # NoMatch THEN m ELSE result)

(***************************************************************************)
(* State.                                                                   *)
(***************************************************************************)
NoRoom == 0
CreatedRooms == 1..MaxRooms           \* rooms the bridge's bot creates
ForeignRoom == MaxRooms + 1           \* a room of the puppet's with no bridge alias
UnknownRoom == MaxRooms + 2           \* a room the puppet's client does not hold
ForeignAlias == <<"#", "x", ":">> \o Domain

VARIABLES
  dedupe,          \* the constructor's Deduplication argument
  aliasDir,        \* room directory: alias -> room id, or NoRoom
  nextRoom,        \* the next room id the directory hands out
  roomAliases,     \* the aliases of each room, as the puppet's client holds them
  puppetJoined,    \* rooms the puppet account is a member of
  thirdPartyRooms, \* Base.thirdPartyRooms: room id -> third-party room token
  ghostAvatar,     \* whether a ghost's profile has an avatar
  userStore,       \* the bridge's user store: "none", or what the record holds
  overlap,         \* whether this run overlaps handler invocations
  started,         \* handler invocations started so far
  faults,          \* failures the environment has injected so far
  unjoinable,      \* joins answered "No known servers" so far
  proc,            \* the handler invocations
  puppetThirdPartyRooms, \* Puppet.thirdPartyRooms: room id -> third-party id
  fun              \* the last application of a pure function, with its input

vars == <<dedupe, aliasDir, nextRoom, roomAliases, puppetJoined,
          thirdPartyRooms, ghostAvatar, userStore, overlap, started, faults,
          unjoinable, proc, puppetThirdPartyRooms, fun>>

\* What no handler of Base writes.
config == <<dedupe, overlap, puppetThirdPartyRooms, fun>>
ghosts == <<ghostAvatar, userStore>>
directory == <<aliasDir, nextRoom, roomAliases, puppetJoined, thirdPartyRooms>>
shared == <<directory, ghosts>>

(***************************************************************************)
(* Loop-prevention tagger (Base.constructor, tagMatrixMessage,              *)
(* isTaggedMatrixMessage).                                                  *)
(***************************************************************************)
deduplicationTag ==
  IF dedupe.tag # <<>> THEN dedupe.tag ELSE defaultDeduplicationTag

deduplicationTagPattern ==
  IF dedupe.pattern.lit # <<>> THEN dedupe.pattern ELSE defaultDeduplicationTagPattern

\* A tagger that leaves the text as it is.
TagNothing(text) == text

tagMatrixMessage(text) == text \o deduplicationTag

isTaggedMatrixMessage(text) == RegExpTest(deduplicationTagPattern, text)

\* utils.autoTagger(senderId, base): the tag function handed to the handlers.
autoTagger(senderId, text) == tagMatrixMessage(text)

\* parseBangCommand(body): whether the body is a command of the grammar.
parseBangCommand(body) == Len(body) >= 2 /\ body[1] = "!" /\ body[2] = "a"

getThirdPartyRoomIdFromMatrixRoomId(matrixRoomId) ==
  ReduceAliases(roomAliases[matrixRoomId], NoMatch)

(***************************************************************************)
(* Handler invocations.                                                     *)
(*                                                                          *)
(* op    the exposed operation: "text", "image", "event"; "receipt" for    *)
(*       the puppet's Room.receipt listener, "sendReadReceipt" and "save"   *)
(*       for the public methods of those names                              *)
(* pc    the pending call of the handler's promise chain                    *)
(* ret   what the operation returned to its caller: "pending" while the     *)
(*       returned promise is unsettled, then "resolved" or "rejected";      *)
(*       "returned" for a synchronous return without a promise, "threw"     *)
(*       for a synchronous exception                                        *)
(* tok   the encoded third-party room id                                    *)
(* rk, rroom, rdepth, cont   the room resolution in progress: its kind      *)
(*       ("room" or "status"), the room id at hand, the number of           *)
(*       enclosing calls that wait for this one, and what awaits its result *)
(* failed  the room whose join this resolution last saw refused with        *)
(*       "No known servers"                                                 *)
(* sender, src   the payload's senderId (encoded) and image source          *)
(* ignore  prepareMessageHandler marked the payload as the bridge's own     *)
(* target  the room id prepareMessageHandler resolved                       *)
(* gname, gavat   the two promises of getIntentFromThirdPartySenderId       *)
(* ipc   the pending call of the image chain, which the image handler       *)
(*       starts and does not return                                         *)
(* ev    what handleMatrixEvent was given                                   *)
(* unhandled   a promise nobody waits for has rejected                      *)
(* err   the call whose failure rejected the handler's chain, or what the   *)
(*       handler threw; "none" if nothing did                               *)
(* cur   the calls of the resolution in progress (or the last one)          *)
(* roomc the calls of the resolution of the target room, once it returned   *)
(* n     the calls of the whole invocation                                  *)
(* untagged  a body was sent on which isTaggedMatrixMessage is false        *)
(* receipt   what a read-receipt invocation read and handed to the adapter  *)
(* gjoined   the rooms the ghost's joins have completed for, in order       *)
(* client    whose client the handler was given: "puppet" or "ghost"        *)
(***************************************************************************)
NoSender == <<>>
UrlText == <<"h", "/", "i">>          \* payload.url
NoEvent == [type |-> "none", puppet |-> FALSE, tagged |-> FALSE, known |-> FALSE,
            tok |-> NoMatch, msgtype |-> "none", bang |-> FALSE, info |-> FALSE]

NoCalls ==
  [lookups |-> 0, misses |-> 0, creates |-> 0, joins |-> 0, joined |-> 0,
   grants |-> 0, swallowed |-> 0, deletes |-> 0]

NoTotals ==
  [creates |-> 0, joins |-> 0, grants |-> 0, records |-> 0, leaves |-> 0,
   statusMsgs |-> 0, notices |-> 0, sends |-> 0, imageSends |-> 0,
   fallbacks |-> 0, uploads |-> 0, adapterText |-> 0, adapterImage |-> 0, bang |-> 0,
   avatarChecks |-> 0, avatarFetches |-> 0, avatarSets |-> 0, receipts |-> 0,
   setRemoteUsers |-> 0]

\* What an invocation for a read receipt read: the room, whether the
\* puppet's id is among the readers, whether the adapter takes receipts,
\* whether Base.thirdPartyRooms held the room, and the id the adapter got.
NoReceipt ==
  [room |-> NoRoom, own |-> FALSE, adapter |-> FALSE, recorded |-> FALSE,
   sent |-> <<>>]

IdleProc ==
  [op |-> "idle", pc |-> "idle", ret |-> "none", tok |-> <<>>,
   rk |-> "none", rroom |-> NoRoom, rdepth |-> 0, cont |-> "none",
   failed |-> NoRoom, sender |-> NoSender, target |-> NoRoom,
   gname |-> "none", gavat |-> "none", ipc |-> "none", src |-> "none",
   ignore |-> FALSE, err |-> "none", ev |-> NoEvent, unhandled |-> FALSE, cur |-> NoCalls, roomc |-> NoCalls,
   n |-> NoTotals, untagged |-> FALSE, receipt |-> NoReceipt,
   gjoined |-> <<>>, client |-> "none"]

\* Inputs of the pure functions: third-party identifiers as strings of code
\* units, and the (network, identity, id) arguments of the alias derivation.
CodeUnits == {0, 97, 127, 128, 233, 255}
Identifiers == SeqsUpTo(CodeUnits, MaxIdLen) \ {<<>>}
Networks == {Network, Network \o PuppetInfix \o IdentityId}
IdentityIds == {IdentityId, <<"j">>, IdentityId \o PuppetInfix \o <<"j">>}
DerivationIds == RoomTokens \cup {StatusRoomToken, a2b(<<97>>)}
Derivations ==
  [network : Networks, identityId : IdentityIds, id : DerivationIds]

NoDerivation == [network |-> <<>>, identityId |-> <<>>, id |-> <<>>]
NoFun ==
  [f |-> "none", applied |-> FALSE,
   x |-> <<>>, token |-> <<>>, back |-> <<>>,
   s |-> NoDerivation, t |-> NoDerivation, ls |-> <<>>, lt |-> <<>>,
   text |-> <<>>, tagged |-> <<>>, hit |-> FALSE, hitTagged |-> FALSE]

Init ==
  /\ dedupe = NoDedupe
  /\ aliasDir = [a \in AliasNames |-> NoRoom]
  /\ nextRoom = 1
  /\ roomAliases = [r \in CreatedRooms \cup {ForeignRoom} |->
                      IF r = ForeignRoom THEN <<ForeignAlias>> ELSE <<>>]
  /\ puppetJoined = {ForeignRoom}
  /\ thirdPartyRooms = [r \in CreatedRooms |-> <<>>]
  /\ ghostAvatar = [u \in UserTokens |-> FALSE]
  /\ userStore = [u \in UserTokens |-> "none"]
  /\ overlap \in BOOLEAN
  /\ started = 0
  /\ faults = 0
  /\ unjoinable = 0
  /\ proc = [p \in Procs |-> IdleProc]
  /\ puppetThirdPartyRooms = [r \in CreatedRooms \cup {ForeignRoom} |-> <<>>]
  /\ fun = NoFun

\* The invocation has settled and none of its work is pending.
Finished(r) ==
  /\ r.pc = "done"
  /\ r.ipc \in {"none", "done"}
  /\ r.gname \in {"none", "ok", "failed"}
  /\ r.gavat \in {"none", "ok", "failed"}

\* A handler may be invoked: in a run that overlaps invocations, while the
\* slots before this one are taken; otherwise in the first slot, once the
\* invocation before has finished and left it.
MayStart(p) ==
  IF overlap
  THEN proc[p].op = "idle" /\ \A q \in Procs : q < p => proc[q].op # "idle"
  ELSE p = 1 /\ started < MaxOps /\ (proc[p].op = "idle" \/ Finished(proc[p]))

\* The environment lets a call succeed, or fail while it has faults left.
\* A run that overlaps invocations injects no failure.
Outcome(ok) ==
  /\ ok \/ (~overlap /\ faults < MaxFaults)
  /\ faults' = IF ok THEN faults ELSE faults + 1

Calls(r, f) == [r EXCEPT !.n[f] = @ + 1]
CurCalls(r, f) == [r EXCEPT !.cur[f] = @ + 1]

\* The calls of the resolution of the invocation's third-party room.
RoomCalls(r) == IF r.rk = "room" THEN r.cur ELSE r.roomc

\* A body leaves the bridge through call f.
Sent(r, f, body) ==
  [r EXCEPT !.n[f] = @ + 1,
            !.untagged = @ \/ ~isTaggedMatrixMessage(body)]

ResolutionToken(r) == IF r.rk = "status" THEN StatusRoomToken ELSE r.tok

ResolutionAlias(r) == getRoomAliasFromThirdPartyRoomId(ResolutionToken(r))

\* getStatusRoomId(), as called by sendStatusMsg and prepareMessageHandler:
\* the synchronous part up to puppetClient.getRoomIdForAlias.
getStatusRoomId(r, cont) ==
  [r EXCEPT !.rk = "status", !.rroom = NoRoom, !.rdepth = 0, !.cont = cont,
            !.failed = NoRoom, !.cur = NoCalls, !.pc = "lookup",
            !.roomc = IF r.rk = "room" THEN r.cur ELSE @]

\* sendStatusMsg(options, ...args) up to the lookup of the status room.
sendStatusMsg(r) == getStatusRoomId(Calls(r, "statusMsgs"), "statusMsg")

\* The callback sendStatusMsg chains to getStatusRoomId: it pushes two
\* functions (join the bot, send the tagged notice) on promiseList and
\* returns Promise.all(promiseList).  Promise.all does not call functions: it
\* resolves with them, so neither botIntent.join nor botIntent.sendMessage
\* is invoked.
sendStatusMsgThen(r) ==
  [r EXCEPT !.pc = "done",
            !.ret = IF @ = "pending" THEN "resolved" ELSE @]

\* A rejection arrives at the end of the handler's chain.
\*   handleThirdPartyRoomMessage: .catch reports it with sendStatusMsg, whose
\*     promise the callback does not return;
\*   handleThirdPartyRoomImageMessage: the chain has no .catch;
\*   handleMatrixMessageEvent: promise().catch reports it with sendStatusMsg.
HandlerReject(r, call) ==
  IF r.op = "image"
  THEN [r EXCEPT !.ret = "rejected", !.pc = "done", !.err = call]
  ELSE sendStatusMsg([r EXCEPT !.ret = "resolved", !.err = call])

\* The room resolution in progress rejects because call has failed.
ResolutionReject(r, call) ==
  IF r.cont = "statusMsg"
  THEN IF r.ret = "pending"
       THEN HandlerReject(r, call)  \* the status-room branch of handleMatrixMessageEvent
       ELSE [r EXCEPT !.pc = "done", !.unhandled = TRUE]
  ELSE HandlerReject(r, call)

\* A return of the resolution in which the bot does not leave the room.
ReturnWithoutLeave(r, room) ==
  IF r.rk = "room"
  THEN [r EXCEPT !.rroom = room, !.target = room,
                 !.n.records = @ + r.rdepth + 1,
                 !.pc = "prepared"]
  ELSE IF r.cont = "statusMsg" THEN sendStatusMsgThen([r EXCEPT !.rroom = room])
  ELSE [r EXCEPT !.rroom = room, !.pc = "ghostJoinStatus"]

\* The room resolution in progress returns a room id.  The last callback of
\* getOrCreateMatrixRoomFromThirdPartyRoomId (this.thirdPartyRooms[id] = ...,
\* botIntent.leave(id)) runs once in the innermost call and once in every
\* call that waits for it.
ResolutionReturn(r, room) ==
  IF r.rk = "room"
  THEN [r EXCEPT !.rroom = room, !.target = room,
                 !.n.records = @ + r.rdepth + 1,
                 !.n.leaves = @ + r.rdepth + 1,
                 !.pc = "prepared"]
  ELSE IF r.cont = "statusMsg" THEN sendStatusMsgThen([r EXCEPT !.rroom = room])
  ELSE [r EXCEPT !.rroom = room, !.pc = "ghostJoinStatus"]

ResolutionRecords(r, room) ==
  IF r.rk = "room" THEN [thirdPartyRooms EXCEPT ![room] = r.tok] ELSE thirdPartyRooms

(***************************************************************************)
(* getOrCreateMatrixRoomFromThirdPartyRoomId and getStatusRoomId.           *)
(***************************************************************************)
\* A lookup whose result is taken as joined already.
FoundWithoutJoin(r, room) ==
  [CurCalls(r, "lookups") EXCEPT !.rroom = room, !.pc = "grant"]

\* puppetClient.getRoomIdForAlias(roomAlias) resolves: getStatusRoomId
\* grants the power level before the join, the other goes on to the join.
LookupFound(r, room) ==
  [CurCalls(r, "lookups") EXCEPT
     !.rroom = room, !.pc = IF r.rk = "status" THEN "pregrant" ELSE "join"]

\* It rejects, whatever the reason: the room is created.
LookupRejected(r) ==
  [CurCalls(CurCalls(r, "lookups"), "misses") EXCEPT
     !.pc = IF r.rk = "status" THEN "create" ELSE "roomdata"]

Lookup(p) ==
  LET r == proc[p]
      room == aliasDir[ResolutionAlias(r)]
  IN  /\ r.pc = "lookup"
      /\ \/ /\ room # NoRoom
            /\ proc' = [proc EXCEPT ![p] = LookupFound(r, room)]
            /\ UNCHANGED faults
         \/ /\ room = NoRoom
            /\ proc' = [proc EXCEPT ![p] = LookupRejected(r)]
            /\ UNCHANGED faults
         \/ /\ room # NoRoom
            /\ Outcome(FALSE)
            /\ proc' = [proc EXCEPT ![p] = LookupRejected(r)]
      /\ UNCHANGED <<config, shared, started, unjoinable>>

\* this.adapter.getRoomData(b2a(thirdPartyRoomId))
GetRoomData(p) ==
  LET r == proc[p]
  IN  /\ r.pc = "roomdata"
      /\ \E ok \in BOOLEAN :
           /\ Outcome(ok)
           /\ proc' = [proc EXCEPT ![p] =
                IF ok THEN [r EXCEPT !.pc = "create"] ELSE ResolutionReject(r, "getRoomData")]
      /\ UNCHANGED <<config, shared, started, unjoinable>>

\* A room creation that goes on to the power grant without the join.
CreateWithoutJoin(r, room, hasAvatar) ==
  [Calls(CurCalls(r, "creates"), "creates") EXCEPT !.rroom = room, !.pc = "grant"]

\* botIntent.createRoom({ options: { room_alias_name } }).  The directory
\* refuses an alias that is taken; a new room carries its alias.  On success
\* the room avatar is set when the room data names an avatarUrl (for the
\* status room, when the adapter has a serviceIconPath).
createRoom(r, room, hasAvatar) ==
  [Calls(CurCalls(r, "creates"), "creates") EXCEPT
     !.rroom = room, !.pc = IF hasAvatar THEN "avatar" ELSE "join"]

CreateRoom(p) ==
  LET r == proc[p]
      alias == ResolutionAlias(r)
      r1 == Calls(CurCalls(r, "creates"), "creates")
  IN  /\ r.pc = "create"
      /\ \/ /\ aliasDir[alias] = NoRoom
            /\ nextRoom <= MaxRooms
            /\ \E hasAvatar \in BOOLEAN :
                 proc' = [proc EXCEPT ![p] = createRoom(r, nextRoom, hasAvatar)]
            /\ aliasDir' = [aliasDir EXCEPT ![alias] = nextRoom]
            /\ roomAliases' = [roomAliases EXCEPT ![nextRoom] = <<alias>>]
            /\ nextRoom' = nextRoom + 1
            /\ UNCHANGED faults
         \/ /\ aliasDir[alias] # NoRoom
            /\ proc' = [proc EXCEPT ![p] = ResolutionReject(r1, "createRoom")]
            /\ UNCHANGED <<aliasDir, roomAliases, nextRoom, faults>>
         \/ /\ aliasDir[alias] = NoRoom
            /\ Outcome(FALSE)
            /\ proc' = [proc EXCEPT ![p] = ResolutionReject(r1, "createRoom")]
            /\ UNCHANGED <<aliasDir, roomAliases, nextRoom>>
      /\ UNCHANGED <<config, ghosts, puppetJoined, thirdPartyRooms, started, unjoinable>>

\* setRoomAvatar(room_id, avatarUrl) / setRoomAvatarFromDisk(room_id, path):
\* fetch, upload and botIntent.setRoomAvatar, which touch nothing else.
SetRoomAvatar(p) ==
  LET r == proc[p]
  IN  /\ r.pc = "avatar"
      /\ \E ok \in BOOLEAN :
           /\ Outcome(ok)
           /\ proc' = [proc EXCEPT ![p] =
                IF ok THEN [r EXCEPT !.pc = "join"] ELSE ResolutionReject(r, "setRoomAvatar")]
      /\ UNCHANGED <<config, shared, started, unjoinable>>

\* A power grant whose failure rejects the resolution.
GrantFailureRejects(r, ok) ==
  LET granted == Calls(CurCalls(r, "grants"), "grants")
  IN  IF ok THEN granted ELSE [granted EXCEPT !.err = "setPowerLevel", !.ret = "rejected"]

\* grantPuppetMaxPowerLevel(room_id): botIntent.setPowerLevel(room_id,
\* puppetUserId, 100); a failure is logged and swallowed, and room_id is the
\* result either way.
grantPuppetMaxPowerLevel(r, ok) ==
  LET granted == Calls(CurCalls(r, "grants"), "grants")
  IN  IF ok THEN granted ELSE CurCalls(granted, "swallowed")

\* getStatusRoomId grants the power level on a room it found before the join.
GrantBeforeJoin(p) ==
  LET r == proc[p]
  IN  /\ r.pc = "pregrant"
      /\ \E ok \in BOOLEAN :
           /\ Outcome(ok)
           /\ proc' = [proc EXCEPT ![p] =
                [grantPuppetMaxPowerLevel(r, ok) EXCEPT !.pc = "join"]]
      /\ UNCHANGED <<config, shared, started, unjoinable>>

\* puppetClient.joinRoom(matrixRoomId): joined; or refused with "No known
\* servers", and the alias is deleted; or another error, which is ignored
\* and the room id returned.
JoinRoom(p) ==
  LET r == proc[p]
      r1 == Calls(CurCalls(r, "joins"), "joins")
  IN  /\ r.pc = "join"
      /\ \/ /\ proc' = [proc EXCEPT ![p] =
                 [CurCalls(r1, "joined") EXCEPT !.pc = "grant"]]
            /\ puppetJoined' = puppetJoined \cup {r.rroom}
            /\ UNCHANGED <<faults, unjoinable, thirdPartyRooms>>
         \/ /\ ~overlap
            /\ unjoinable < MaxUnjoinable
            /\ unjoinable' = unjoinable + 1
            /\ proc' = [proc EXCEPT ![p] =
                 [r1 EXCEPT !.failed = r.rroom, !.pc = "delalias"]]
            /\ UNCHANGED <<faults, puppetJoined, thirdPartyRooms>>
         \/ /\ Outcome(FALSE)
            /\ proc' = [proc EXCEPT ![p] = ResolutionReturn(r1, r.rroom)]
            /\ thirdPartyRooms' = ResolutionRecords(r, r.rroom)
            /\ UNCHANGED <<puppetJoined, unjoinable>>
      /\ UNCHANGED <<config, ghosts, aliasDir, nextRoom, roomAliases, started>>

\* grantPuppetMaxPowerLevel after a successful join, then the result.
GrantPower(p) ==
  LET r == proc[p]
  IN  /\ r.pc = "grant"
      /\ \E ok \in BOOLEAN :
           /\ Outcome(ok)
           /\ proc' = [proc EXCEPT ![p] =
                ResolutionReturn(grantPuppetMaxPowerLevel(r, ok), r.rroom)]
      /\ thirdPartyRooms' = ResolutionRecords(r, r.rroom)
      /\ UNCHANGED <<config, ghosts, aliasDir, nextRoom, roomAliases, puppetJoined,
                     started, unjoinable>>

\* A repair that joins the room at hand again instead of looking the alias up.
RetrySameRoom(r) ==
  [CurCalls(r, "deletes") EXCEPT !.rdepth = @ + 1, !.pc = "join"]

\* botClient.deleteAlias(roomAlias), then the same resolution again from the
\* lookup: this.getOrCreateMatrixRoomFromThirdPartyRoomId(thirdPartyRoomId),
\* this.getStatusRoomId(_roomAliasLocalPart).
Retry(r) ==
  [CurCalls(r, "deletes") EXCEPT !.rdepth = @ + 1, !.rroom = NoRoom, !.pc = "lookup"]

DeleteAlias(p) ==
  LET r == proc[p]
  IN  /\ r.pc = "delalias"
      /\ \E ok \in BOOLEAN :
           /\ Outcome(ok)
           /\ proc' = [proc EXCEPT ![p] =
                IF ok THEN Retry(r)
                ELSE ResolutionReject(CurCalls(r, "deletes"), "deleteAlias")]
           /\ aliasDir' = IF ok THEN [aliasDir EXCEPT ![ResolutionAlias(r)] = NoRoom]
                          ELSE aliasDir
      /\ UNCHANGED <<config, ghosts, nextRoom, roomAliases, puppetJoined,
                     thirdPartyRooms, started, unjoinable>>

(***************************************************************************)
(* Inbound relay: handleThirdPartyRoomMessage,                              *)
(* handleThirdPartyRoomImageMessage, prepareMessageHandler.                 *)
(***************************************************************************)
\* The handler encodes the ids of the payload and calls prepareMessageHandler,
\* which calls getOrCreateMatrixRoomFromThirdPartyRoomId(roomId).
StartInbound(op, roomId, senderId) ==
  [IdleProc EXCEPT !.op = op, !.ret = "pending", !.tok = a2b(roomId),
                   !.sender = IF senderId = <<>> THEN NoSender ELSE a2b(senderId),
                   !.rk = "room", !.cont = "prepare", !.pc = "lookup"]

handleThirdPartyRoomMessage(p) ==
  /\ MayStart(p)
  /\ \E roomId \in RawRoomIds, senderId \in RawUserIds \cup {<<>>} :
       proc' = [proc EXCEPT ![p] = StartInbound("text", roomId, senderId)]
  /\ started' = started + 1
  /\ UNCHANGED <<config, shared, faults, unjoinable>>

handleThirdPartyRoomImageMessage(p) ==
  /\ MayStart(p)
  /\ \E roomId \in RawRoomIds, senderId \in RawUserIds \cup {<<>>} :
       proc' = [proc EXCEPT ![p] = StartInbound("image", roomId, senderId)]
  /\ started' = started + 1
  /\ UNCHANGED <<config, shared, faults, unjoinable>>

\* The payload's text is drawn where its value first reaches the state; the
\* text of a payload without senderId is one the ignore test has let pass.
PayloadTexts(r) ==
  {t \in Texts : r.sender = NoSender => ~isTaggedMatrixMessage(t)}

ImageSources == {"url", "path", "buffer", "none"}

\* The fields of the payload the handler's callback reads besides the text.
Variants(r) ==
  IF r.op = "text" THEN [html : BOOLEAN, src : {"none"}]
  ELSE [html : {FALSE}, src : ImageSources]

\* The callback the handlers chain to prepareMessageHandler.
\*   handleThirdPartyRoomMessage: client.sendMessage with body tag(text), with
\*     or without formatted_body.
\*   handleThirdPartyRoomImageMessage: picks the source.  For a url or a
\*     buffer `promise` is a function, promise() starts the chain, which is
\*     not returned, and the callback returns.  For a path `promise` is the
\*     promise of fs.readFile(path).then(...), for no source it is a rejected
\*     promise: promise() throws a TypeError and the returned promise rejects.
Dispatch(r, text, html, src) ==
  IF r.op = "text"
  THEN [Sent(r, "sends", autoTagger(r.sender, text)) EXCEPT !.pc = "sendresult"]
  ELSE IF src \in {"url", "buffer"}
       THEN [r EXCEPT !.src = src, !.ipc = IF src = "url" THEN "download" ELSE "upload",
                      !.ret = "resolved", !.pc = "done"]
  ELSE IF src = "path"
       THEN [r EXCEPT !.src = src, !.ipc = "readfile", !.ret = "rejected",
                      !.err = "TypeError", !.pc = "done"]
  ELSE [r EXCEPT !.src = src, !.unhandled = TRUE, !.ret = "rejected",
                 !.err = "TypeError", !.pc = "done"]

\* getIntentFromThirdPartySenderId(senderId, senderName, avatarUrl): the
\* handlers default senderName to the sender id, so the display name is set
\* from it; the avatar is set from avatarUrl, or from the user store's record.
getIntentFromThirdPartySenderId(r, avatarUrl) ==
  [r EXCEPT !.gname = "setname",
            !.gavat = IF avatarUrl THEN "profile" ELSE "store",
            !.pc = "ghost"]

\* The callback of prepareMessageHandler after the room resolution.
PrepareMessageHandlerThen(p) ==
  LET r == proc[p]
  IN  /\ r.pc = "prepared"
      /\ \/ /\ r.sender = NoSender
            /\ \E text \in Texts, v \in Variants(r) :
                 proc' = [proc EXCEPT ![p] =
                   IF isTaggedMatrixMessage(text)
                   THEN [r EXCEPT !.client = "puppet", !.ignore = TRUE,
                                  !.ret = "resolved", !.pc = "done"]
                   ELSE Dispatch([r EXCEPT !.client = "puppet"], text, v.html, v.src)]
         \/ /\ r.sender # NoSender
            /\ \E avatarUrl \in BOOLEAN :
                 proc' = [proc EXCEPT ![p] = getIntentFromThirdPartySenderId(r, avatarUrl)]
      /\ UNCHANGED <<config, shared, started, faults, unjoinable>>

\* Promise.all(promiseList) of getIntentFromThirdPartySenderId: rejects with
\* the first rejection, resolves when both have; then getStatusRoomId().
PromiseAll(r) ==
  IF r.pc # "ghost" THEN r
  ELSE IF r.gname = "failed" THEN HandlerReject(r, "setDisplayName")
  ELSE IF r.gavat = "failed" THEN HandlerReject(r, "setGhostAvatar")
  ELSE IF r.gname = "ok" /\ r.gavat = "ok" THEN getStatusRoomId(r, "ghost")
  ELSE r

\* ghostIntent.setDisplayName(name)
SetDisplayName(p) ==
  LET r == proc[p]
  IN  /\ r.gname = "setname"
      /\ \E ok \in BOOLEAN :
           /\ Outcome(ok)
           /\ proc' = [proc EXCEPT ![p] =
                PromiseAll([r EXCEPT !.gname = IF ok THEN "ok" ELSE "failed"])]
      /\ UNCHANGED <<config, shared, started, unjoinable>>

\* What follows the remote user: setGhostAvatar if the record has an avatarUrl.
AfterRemoteUser(record) == IF record = "avatar" THEN "profile" ELSE "ok"

\* getOrInitRemoteUserStoreDataFromThirdPartyUserId(userId): getRemoteUser;
\* if there is none adapter.getUserData, setRemoteUser, getRemoteUser.
getOrInitRemoteUserStoreDataFromThirdPartyUserId(p) ==
  LET r == proc[p]
      u == r.sender
      Fail == [r EXCEPT !.gavat = "failed"]
  IN  /\ r.gavat \in {"store", "userdata", "setuser", "setuserAvatar", "getuser"}
      /\ \E ok \in BOOLEAN :
         \E avatarUrl \in {a \in BOOLEAN : a \/ (ok /\ r.gavat = "userdata")} :
           /\ Outcome(ok)
           /\ proc' = [proc EXCEPT ![p] = PromiseAll(
                IF ~ok THEN Fail
                ELSE IF r.gavat = "store"
                     THEN [r EXCEPT !.gavat = IF userStore[u] = "none" THEN "userdata"
                                              ELSE AfterRemoteUser(userStore[u])]
                ELSE IF r.gavat = "userdata"
                     THEN [Calls(r, "setRemoteUsers") EXCEPT
                             !.gavat = IF avatarUrl THEN "setuserAvatar" ELSE "setuser"]
                ELSE IF r.gavat \in {"setuser", "setuserAvatar"}
                     THEN [r EXCEPT !.gavat = "getuser"]
                ELSE [r EXCEPT !.gavat = AfterRemoteUser(userStore[u])])]
           /\ userStore' =
                IF ok /\ r.gavat \in {"setuser", "setuserAvatar"}
                THEN [userStore EXCEPT ![u] =
                        IF r.gavat = "setuserAvatar" THEN "avatar" ELSE "plain"]
                ELSE userStore
      /\ UNCHANGED <<config, directory, ghostAvatar, started, unjoinable>>

\* A profile callback that downloads whatever the profile holds.
AlwaysFetch(r, avatar_url) ==
  [Calls(Calls(r, "avatarChecks"), "avatarFetches") EXCEPT !.gavat = "fetch"]

\* The callback of getProfileInfo: null if the profile has an avatar,
\* otherwise the download and uploadContent chain.
AfterProfileInfo(r, avatar_url) ==
  LET checked == Calls(r, "avatarChecks")
  IN  IF avatar_url THEN [checked EXCEPT !.gavat = "ok"]
      ELSE [Calls(checked, "avatarFetches") EXCEPT !.gavat = "fetch"]

\* setGhostAvatar(ghostIntent, avatarUrl): getProfileInfo; if the profile
\* has no avatar, download and uploadContent, then setAvatarUrl.
setGhostAvatar(p) ==
  LET r == proc[p]
      u == r.sender
  IN  /\ r.gavat \in {"profile", "fetch", "setavatar"}
      /\ \E ok \in BOOLEAN :
           /\ Outcome(ok)
           /\ proc' = [proc EXCEPT ![p] = PromiseAll(
                IF ~ok THEN [r EXCEPT !.gavat = "failed"]
                ELSE IF r.gavat = "profile"
                     THEN AfterProfileInfo(r, ghostAvatar[u])
                ELSE IF r.gavat = "fetch"
                     THEN [Calls(r, "avatarSets") EXCEPT !.gavat = "setavatar"]
                ELSE [r EXCEPT !.gavat = "ok"])]
           /\ ghostAvatar' = IF ok /\ r.gavat = "setavatar"
                             THEN [ghostAvatar EXCEPT ![u] = TRUE] ELSE ghostAvatar
      /\ UNCHANGED <<config, directory, userStore, started, unjoinable>>

\* A ghost join that leaves no trace.
JoinNothing(r, roomId) == r

\* ghostIntent.join(roomId) has resolved.
ghostIntentJoin(r, roomId) == [r EXCEPT !.gjoined = Append(@, roomId)]

\* ghostIntent.join(statusRoomId), then ghostIntent.join(matrixRoomId), then
\* the handler's callback with the ghost's client.
GhostJoin(p) ==
  LET r == proc[p]
  IN  /\ r.pc \in {"ghostJoinStatus", "ghostJoinRoom"}
      /\ \E ok \in BOOLEAN :
           /\ Outcome(ok)
           /\ IF ~ok THEN proc' = [proc EXCEPT ![p] = HandlerReject(r, "ghostJoin")]
              ELSE IF r.pc = "ghostJoinStatus"
              THEN proc' = [proc EXCEPT ![p] =
                     [ghostIntentJoin(r, r.rroom) EXCEPT !.pc = "ghostJoinRoom"]]
              ELSE \E text \in Texts, v \in Variants(r) :
                     proc' = [proc EXCEPT ![p] =
                       Dispatch([ghostIntentJoin(r, r.target) EXCEPT !.client = "ghost"],
                                text, v.html, v.src)]
      /\ UNCHANGED <<config, shared, started, unjoinable>>

\* client.sendMessage of handleThirdPartyRoomMessage settles.
SendResult(p) ==
  LET r == proc[p]
  IN  /\ r.pc = "sendresult"
      /\ \E ok \in BOOLEAN :
           /\ Outcome(ok)
           /\ proc' = [proc EXCEPT ![p] =
                IF ok THEN [r EXCEPT !.ret = "resolved", !.pc = "done"]
                ELSE HandlerReject(r, "sendMessage")]
      /\ UNCHANGED <<config, shared, started, unjoinable>>

\* The rejection callback of the image chain: client.sendMessage with body
\* tag(url || path || text).
Fallback(r, text) ==
  [Sent(r, "fallbacks", autoTagger(r.sender, IF r.src = "url" THEN UrlText ELSE text))
     EXCEPT !.ipc = "fallbacksend"]

\* The image chain: download.getBufferAndType(url), upload(buffer), then
\* client.sendImageMessage with caption tag(text); for a path fs.readFile
\* and upload(buffer), whose result nothing waits for.
ImageChain(p) ==
  LET r == proc[p]
      Uploaded == Calls(r, "uploads")
  IN  /\ r.ipc \in {"download", "upload", "readfile", "pathupload"}
      /\ \E ok \in BOOLEAN :
           /\ Outcome(ok)
           /\ IF r.ipc = "download" /\ ok
              THEN proc' = [proc EXCEPT ![p] = [r EXCEPT !.ipc = "upload"]]
              ELSE IF r.ipc = "download"
              THEN \E text \in PayloadTexts(r) :
                     proc' = [proc EXCEPT ![p] = Fallback(r, text)]
              ELSE IF r.ipc = "upload"
              THEN \E text \in PayloadTexts(r) :
                     proc' = [proc EXCEPT ![p] =
                       IF ok
                       THEN [Sent(Uploaded, "imageSends", autoTagger(r.sender, text))
                               EXCEPT !.ipc = "imagesend"]
                       ELSE Fallback(Uploaded, text)]
              ELSE IF r.ipc = "readfile"
              THEN proc' = [proc EXCEPT ![p] =
                     IF ok THEN [r EXCEPT !.ipc = "pathupload"]
                     ELSE [r EXCEPT !.ipc = "done", !.unhandled = TRUE]]
              ELSE proc' = [proc EXCEPT ![p] =
                     [Uploaded EXCEPT !.ipc = "done", !.unhandled = @ \/ ~ok]]
      /\ UNCHANGED <<config, shared, started, unjoinable>>

\* client.sendImageMessage or the fallback's client.sendMessage settles;
\* nothing handles its rejection.
ImageChainEnd(p) ==
  LET r == proc[p]
  IN  /\ r.ipc \in {"imagesend", "fallbacksend"}
      /\ \E ok \in BOOLEAN :
           /\ Outcome(ok)
           /\ proc' = [proc EXCEPT ![p] =
                [r EXCEPT !.ipc = "done", !.unhandled = @ \/ ~ok]]
      /\ UNCHANGED <<config, shared, started, unjoinable>>

(***************************************************************************)
(* Outbound relay: handleMatrixEvent, handleMatrixMessageEvent.             *)
(***************************************************************************)
EventTypes == {"m.room.message", "m.room.member"}
MsgTypes == {"m.text", "m.image", "m.file"}

\* The rooms an event can come from.
EventRooms == {room \in CreatedRooms : room < nextRoom} \cup {ForeignRoom, UnknownRoom}

\* An event of which nothing is known but its type; the other fields are
\* drawn as the handler comes to read them.
AnyEvent(type) ==
  [type |-> type, room |-> UnknownRoom, sender |-> OtherUserId, body |-> <<>>,
   msgtype |-> "m.text", info |-> FALSE]

\* The ignore test that asks for both conditions.
IgnoreIfBoth(sender, body) ==
  PuppetUserId # sender /\ isTaggedMatrixMessage(body)

\* The test at the top of handleMatrixMessageEvent.
IgnoreMatrixMessage(sender, body) ==
  PuppetUserId # sender \/ isTaggedMatrixMessage(body)

\* What the invocation keeps of its event.
EventEntry(e) ==
  [puppet |-> (e.sender = PuppetUserId),
   tagged |-> isTaggedMatrixMessage(e.body), known |-> (e.room # UnknownRoom),
   tok |-> IF e.room = UnknownRoom THEN NoMatch
           ELSE getThirdPartyRoomIdFromMatrixRoomId(e.room),
   msgtype |-> e.msgtype, bang |-> parseBangCommand(e.body), info |-> e.info,
   type |-> e.type]

Threw(r) == [r EXCEPT !.ret = "threw", !.err = "TypeError", !.pc = "done"]

\* The status room test that never holds.
NeverStatusRoom(thirdPartyRoomId) == FALSE

\* const isStatusRoom = thirdPartyRoomId === "status_room"
isStatusRoom(thirdPartyRoomId) == thirdPartyRoomId = StatusRoomToken

\* handleMatrixMessageEvent(data) up to its first pending call.  getRoom
\* gives null for a room the client does not hold, and room.getAliases()
\* throws; the image descriptor reads data.content.info.mimetype inside
\* promise(), which throws if the event has no info.  hasBangHandler is
\* whether the adapter has a handleMatrixUserBangCommand.
handleMatrixMessageEvent(r, e, hasBangHandler) ==
  IF IgnoreMatrixMessage(e.sender, e.body)
  THEN [r EXCEPT !.ret = "returned", !.pc = "done"]
  ELSE IF e.room = UnknownRoom THEN Threw(r)
  ELSE LET thirdPartyRoomId == getThirdPartyRoomIdFromMatrixRoomId(e.room)
           msg == tagMatrixMessage(e.body)
       IN  IF thirdPartyRoomId = NoMatch THEN HandlerReject(r, "unmapped")
           ELSE IF isStatusRoom(thirdPartyRoomId) THEN sendStatusMsg(r)
           ELSE IF e.msgtype = "m.text"
                THEN IF hasBangHandler /\ parseBangCommand(e.body)
                     THEN [Calls(r, "bang") EXCEPT !.pc = "bang"]
                     ELSE [Sent(r, "adapterText", msg) EXCEPT !.pc = "adapter"]
           ELSE IF e.msgtype = "m.image"
                THEN IF e.info
                     THEN [Sent(r, "adapterImage", tagMatrixMessage(e.body))
                             EXCEPT !.pc = "adapter"]
                     ELSE Threw(r)
           ELSE HandlerReject(r, "msgtype")

\* handleMatrixEvent(req) with req.getData() = e.
Deliver(p, e, hasBangHandler) ==
  LET r == [IdleProc EXCEPT !.op = "event", !.ret = "pending", !.ev = EventEntry(e)]
  IN  proc' = [proc EXCEPT ![p] =
        IF e.type = "m.room.message"
        THEN handleMatrixMessageEvent(r, e, hasBangHandler)
        ELSE [r EXCEPT !.ret = "returned", !.pc = "done"]]

handleMatrixEvent(p) ==
  /\ MayStart(p)
  /\ \E type \in EventTypes :
       IF type # "m.room.message" THEN Deliver(p, AnyEvent(type), FALSE)
       ELSE \E sender \in Senders, body \in Texts :
              IF IgnoreMatrixMessage(sender, body)
              THEN \E room \in EventRooms :
                     Deliver(p, [AnyEvent(type) EXCEPT !.sender = sender,
                                   !.body = body, !.room = room], FALSE)
              ELSE \E room \in EventRooms, msgtype \in MsgTypes :
                   \E x \in {b \in BOOLEAN : msgtype = "m.file" => ~b} :
                     Deliver(p, [type |-> type, room |-> room, sender |-> sender,
                                 body |-> body, msgtype |-> msgtype,
                                 info |-> (x /\ msgtype = "m.image")],
                             x /\ msgtype = "m.text")
  /\ started' = started + 1
  /\ UNCHANGED <<config, shared, faults, unjoinable>>

\* adapter.sendMessage / adapter.sendImageMessage settles; .catch reports a
\* rejection with sendStatusMsg.
AdapterResult(p) ==
  LET r == proc[p]
  IN  /\ r.pc = "adapter"
      /\ \E ok \in BOOLEAN :
           /\ Outcome(ok)
           /\ proc' = [proc EXCEPT ![p] =
                IF ok THEN [r EXCEPT !.ret = "resolved", !.pc = "done"]
                ELSE HandlerReject(r, "adapter")]
      /\ UNCHANGED <<config, shared, started, unjoinable>>

\* adapter.handleMatrixUserBangCommand(bc, data) settles: its promise is what
\* handleMatrixEvent returned.
BangResult(p) ==
  LET r == proc[p]
  IN  /\ r.pc = "bang"
      /\ \E ok \in BOOLEAN :
           /\ Outcome(ok)
           /\ proc' = [proc EXCEPT ![p] =
                [r EXCEPT !.ret = IF ok THEN "resolved" ELSE "rejected",
                          !.err = IF ok THEN @ ELSE "bang", !.pc = "done"]]
      /\ UNCHANGED <<config, shared, started, unjoinable>>

(***************************************************************************)
(* Read receipts.                                                           *)
(***************************************************************************)
\* The rooms of the puppet's client.
ReceiptRooms == {room \in CreatedRooms : room < nextRoom} \cup {ForeignRoom}

\* roomId in this.thirdPartyRooms, of Base
Recorded(roomId) == roomId \in CreatedRooms /\ thirdPartyRooms[roomId] # <<>>

\* A receipt invocation that has handed the adapter thirdPartyRoomId.
Forward(r, thirdPartyRoomId) ==
  [Calls(r, "receipts") EXCEPT !.receipt.sent = thirdPartyRoomId]

\* The Room.receipt listener of Puppet.startClient, its adapter present.
RoomReceipt(r, roomId, own) ==
  IF puppetThirdPartyRooms[roomId] # <<>> /\ own
  THEN Forward(r, puppetThirdPartyRooms[roomId])
  ELSE r

\* The puppet's client emits Room.receipt.
OnRoomReceipt(p) ==
  /\ MayStart(p)
  /\ \E roomId \in ReceiptRooms, own \in BOOLEAN, hasAdapter \in BOOLEAN :
       LET r == [IdleProc EXCEPT !.op = "receipt", !.ret = "returned", !.pc = "done",
                   !.receipt = [NoReceipt EXCEPT !.room = roomId, !.own = own,
                                  !.adapter = hasAdapter,
                                  !.recorded = Recorded(roomId)]]
       IN  proc' = [proc EXCEPT ![p] =
             IF hasAdapter THEN RoomReceipt(r, roomId, own) ELSE r]
  /\ started' = started + 1
  /\ UNCHANGED <<config, shared, faults, unjoinable>>

\* Base.sendReadReceipt(roomId), called by the application.
sendReadReceipt(p) ==
  /\ MayStart(p)
  /\ \E roomId \in ReceiptRooms :
       LET r == [IdleProc EXCEPT !.op = "sendReadReceipt", !.ret = "returned",
                   !.pc = "done",
                   !.receipt = [NoReceipt EXCEPT !.room = roomId, !.adapter = TRUE,
                                  !.recorded = Recorded(roomId)]]
       IN  proc' = [proc EXCEPT ![p] =
             IF Recorded(roomId) THEN Forward(r, b2a(thirdPartyRooms[roomId]))
             ELSE r]
  /\ started' = started + 1
  /\ UNCHANGED <<config, shared, faults, unjoinable>>

\* Puppet.saveThirdPartyRoomId(matrixRoomId, thirdPartyRoomId), called by
\* the application.
saveThirdPartyRoomId(p) ==
  /\ MayStart(p)
  /\ \E matrixRoomId \in ReceiptRooms, thirdPartyRoomId \in RawRoomIds :
       puppetThirdPartyRooms' =
         [puppetThirdPartyRooms EXCEPT ![matrixRoomId] = thirdPartyRoomId]
  /\ proc' = [proc EXCEPT ![p] =
       [IdleProc EXCEPT !.op = "save", !.ret = "returned", !.pc = "done"]]
  /\ started' = started + 1
  /\ UNCHANGED <<dedupe, overlap, fun, shared, faults, unjoinable>>

(***************************************************************************)
(* The bridge.                                                              *)
(***************************************************************************)
Next ==
  \E p \in Procs :
    \/ handleThirdPartyRoomMessage(p)
    \/ handleThirdPartyRoomImageMessage(p)
    \/ handleMatrixEvent(p)
    \/ Lookup(p)
    \/ GetRoomData(p)
    \/ CreateRoom(p)
    \/ SetRoomAvatar(p)
    \/ GrantBeforeJoin(p)
    \/ JoinRoom(p)
    \/ GrantPower(p)
    \/ DeleteAlias(p)
    \/ PrepareMessageHandlerThen(p)
    \/ SetDisplayName(p)
    \/ getOrInitRemoteUserStoreDataFromThirdPartyUserId(p)
    \/ setGhostAvatar(p)
    \/ GhostJoin(p)
    \/ SendResult(p)
    \/ ImageChain(p)
    \/ ImageChainEnd(p)
    \/ AdapterResult(p)
    \/ BangResult(p)
    \/ OnRoomReceipt(p)
    \/ sendReadReceipt(p)
    \/ saveThirdPartyRoomId(p)

Spec == Init /\ [][Next]_vars

(***************************************************************************)
(* The pure functions of the bridge, applied to inputs drawn at the start.  *)
(***************************************************************************)
PureInit ==
  /\ aliasDir = [a \in AliasNames |-> NoRoom]
  /\ nextRoom = 1
  /\ roomAliases = [r \in CreatedRooms \cup {ForeignRoom} |->
                      IF r = ForeignRoom THEN <<ForeignAlias>> ELSE <<>>]
  /\ puppetJoined = {ForeignRoom}
  /\ thirdPartyRooms = [r \in CreatedRooms |-> <<>>]
  /\ ghostAvatar = [u \in UserTokens |-> FALSE]
  /\ userStore = [u \in UserTokens |-> "none"]
  /\ overlap = FALSE
  /\ started = 0
  /\ faults = 0
  /\ unjoinable = 0
  /\ proc = [p \in Procs |-> IdleProc]
  /\ puppetThirdPartyRooms = [r \in CreatedRooms \cup {ForeignRoom} |-> <<>>]
  /\ \/ /\ dedupe = NoDedupe
        /\ \E x \in Identifiers : fun = [NoFun EXCEPT !.f = "codec", !.x = x]
     \/ /\ dedupe = NoDedupe
        /\ \E s \in Derivations, t \in Derivations :
             fun = [NoFun EXCEPT !.f = "alias", !.s = s, !.t = t]
     \/ /\ dedupe \in Dedupes
        /\ \E text \in Texts : fun = [NoFun EXCEPT !.f = "tagger", !.text = text]

Frame ==
  UNCHANGED <<dedupe, overlap, puppetThirdPartyRooms, shared, started, faults,
              unjoinable, proc>>

\* b2a(a2b(x)): an identifier encoded, as the handlers do on the way in, and
\* decoded, as the outbound relay does before it calls the adapter.
ApplyCodec ==
  /\ fun.f = "codec" /\ ~fun.applied
  /\ fun' = [fun EXCEPT !.applied = TRUE, !.token = a2b(fun.x),
                         !.back = b2a(a2b(fun.x))]
  /\ Frame

\* getRoomAliasLocalPartFromThirdPartyRoomId(id) in two bridges.
ApplyLocalPart ==
  /\ fun.f = "alias" /\ ~fun.applied
  /\ fun' = [fun EXCEPT !.applied = TRUE,
                !.ls = LocalPartOf(fun.s.network, fun.s.identityId, fun.s.id),
                !.lt = LocalPartOf(fun.t.network, fun.t.identityId, fun.t.id)]
  /\ Frame

\* tagMatrixMessage(text), isTaggedMatrixMessage(text) and
\* isTaggedMatrixMessage(tagMatrixMessage(text)) of the constructed bridge.
ApplyTagger ==
  /\ fun.f = "tagger" /\ ~fun.applied
  /\ fun' = [fun EXCEPT !.applied = TRUE,
                !.tagged = tagMatrixMessage(fun.text),
                !.hit = isTaggedMatrixMessage(fun.text),
                !.hitTagged = isTaggedMatrixMessage(tagMatrixMessage(fun.text))]
  /\ Frame

PureNext == ApplyCodec \/ ApplyLocalPart \/ ApplyTagger

PureSpec == PureInit /\ [][PureNext]_vars

(***************************************************************************)
(* Properties.                                                              *)
(***************************************************************************)
Inbound(r) == r.op \in {"text", "image"}

RoomMessage(r) == r.op = "event" /\ r.ev.type = "m.room.message"

NoAdapterCall(r) == r.n.adapterText = 0 /\ r.n.adapterImage = 0 /\ r.n.bang = 0

(* C1: a room-message event whose sender is not the puppet account, or whose *)
(* body matches the deduplication pattern, is dropped when it arrives:      *)
(* handleMatrixEvent returns at once, no adapter operation (sendMessage,    *)
(* sendImageMessage, handleMatrixUserBangCommand) is invoked and            *)
(* sendStatusMsg is not called, so no status-room notice is produced.       *)
C1_IgnoredEventReachesNothing ==
  \A p \in Procs :
    LET r == proc[p]
    IN  (RoomMessage(r) /\ (~r.ev.puppet \/ r.ev.tagged))
          => /\ NoAdapterCall(r)
             /\ r.n.statusMsgs = 0
             /\ r.n.notices = 0
             /\ r.pc = "done"
             /\ r.ret = "returned"

\* C1's case: the bridge's own tagged message, echoed back by the puppet
\* account in a room mapped to a third-party room, has been dropped.
C1_Witness ==
  \E p \in Procs :
    /\ RoomMessage(proc[p])
    /\ proc[p].ev.puppet /\ proc[p].ev.tagged
    /\ proc[p].ev.tok \in RoomTokens
    /\ proc[p].pc = "done"

C3_StatusRoomReachesNoAdapter ==
  \A p \in Procs :
    (RoomMessage(proc[p]) /\ proc[p].ev.tok = StatusRoomToken)
      => NoAdapterCall(proc[p])

\* C3's case: the puppet has written a bang command, untagged, in the
\* status room, and the handler has answered it with sendStatusMsg.
C3_Witness ==
  \E p \in Procs :
    /\ RoomMessage(proc[p])
    /\ proc[p].ev.tok = StatusRoomToken
    /\ proc[p].ev.puppet /\ ~proc[p].ev.tagged
    /\ proc[p].ev.msgtype = "m.text" /\ proc[p].ev.bang
    /\ proc[p].n.statusMsgs > 0

(* C4, as stated: when resolutions of the same unknown third-party room id  *)
(* overlap and no join fails, at most one of them performs a room-create    *)
(* for the alias.                                                           *)
C4_AtMostOneCreate ==
  overlap => Cardinality({p \in Procs : RoomCalls(proc[p]).creates > 0}) <= 1

(* C5, as stated: handling the first inbound text message for a room whose  *)
(* alias lookup finds nothing, every call succeeding, produces exactly one  *)
(* room-create call, one puppet join call, one power-grant call and one     *)
(* RoomRecord entry.                                                        *)
FirstContact(r) ==
  /\ r.op = "text" /\ Finished(r)
  /\ r.ret = "resolved" /\ r.err = "none" /\ ~r.unhandled
  /\ faults = 0 /\ unjoinable = 0
  /\ RoomCalls(r).lookups = 1 /\ RoomCalls(r).misses = 1

RoomRecords(tok) == {m \in CreatedRooms : thirdPartyRooms[m] = tok}

C5_ExactlyOneOfEach ==
  \A p \in Procs :
    FirstContact(proc[p])
      => /\ proc[p].n.creates = 1
         /\ proc[p].n.joins = 1
         /\ proc[p].n.grants = 1
         /\ proc[p].n.records = 1

(* C5, amended: the resolution of the message's room performs exactly one   *)
(* room-create, one puppet join and one power grant, and writes exactly one *)
(* RoomRecord entry, for the room returned; these are all the create, join  *)
(* and grant calls when the payload has no senderId.  With a senderId the   *)
(* resolution of the status room, which precedes the ghost's joins, adds    *)
(* one puppet join, at most one room-create and at least one power grant.   *)
C5_OneOfEachForTheRoom ==
  \A p \in Procs :
    LET r == proc[p]
    IN  FirstContact(r)
          => /\ RoomCalls(r).creates = 1
             /\ RoomCalls(r).joins = 1
             /\ RoomCalls(r).grants = 1
             /\ r.n.records = 1
             /\ RoomRecords(r.tok) = {r.target}
             /\ r.target \in puppetJoined
             /\ IF r.sender = NoSender
                THEN r.n.creates = 1 /\ r.n.joins = 1 /\ r.n.grants = 1
                ELSE /\ r.n.joins = 2
                     /\ r.n.creates \in {1, 2}
                     /\ r.n.grants \in {2, 3}

\* C5's case: a first-contact message with a senderId has been handled, and
\* the status room was created on the way.
C5_Witness ==
  \E p \in Procs :
    /\ FirstContact(proc[p])
    /\ proc[p].sender # NoSender
    /\ proc[p].n.sends = 1
    /\ proc[p].n.creates = 2

(* C6: when the puppet's join fails with "No known servers", the alias is   *)
(* deleted before any further lookup (every lookup after the first follows  *)
(* a delete, and finds the alias unbound); if the join of the retry         *)
(* succeeds, the resolution has retried exactly once (one delete, two       *)
(* lookups) and returns a new room id, different from the one whose join    *)
(* failed.                                                                  *)
Returned(r) == r.pc \in {"prepared", "ghostJoinStatus"}

RetryJoined(r) ==
  /\ Returned(r)
  /\ r.failed # NoRoom
  /\ r.cur.joins = 2
  /\ r.rroom \in puppetJoined

C6_RepairThenNewRoom ==
  \A p \in Procs :
    LET r == proc[p]
    IN  /\ r.cur.lookups <= r.cur.deletes + 1
        /\ (r.pc = "lookup" /\ r.rdepth > 0)
             => /\ r.cur.deletes = r.rdepth
                /\ r.cur.lookups = r.rdepth
                /\ aliasDir[ResolutionAlias(r)] = NoRoom
        /\ RetryJoined(r)
             => /\ r.cur.deletes = 1
                /\ r.cur.lookups = 2
                /\ r.rroom # r.failed
                /\ r.rroom > r.failed
                /\ aliasDir[ResolutionAlias(r)] = r.rroom

\* C6's case: a resolution has returned after one refused join and a retry
\* whose join succeeded.
C6_Witness == \E p \in Procs : RetryJoined(proc[p])

(* C7, as stated: a resolution performs only a bounded number of            *)
(* delete-alias / re-lookup rounds even when every join is refused as       *)
(* unjoinable: it gives up before the refusals do.                          *)
C7_RepairBounded == \A p \in Procs : proc[p].rdepth < MaxUnjoinable

(* C8, as stated: whichever step fails, the promise an inbound handler      *)
(* returned never rejects.                                                  *)
C8_InboundNeverRejects ==
  \A p \in Procs : Inbound(proc[p]) => proc[p].ret # "rejected"

(* C9, as stated: when a step of the inbound flow has failed and the status *)
(* room has been resolved, a notice has been sent to the status room by the *)
(* time the handler's work is over.                                         *)
C9_InboundFailureNoticed ==
  \A p \in Procs :
    LET r == proc[p]
    IN  (Inbound(r) /\ Finished(r) /\ r.err # "none" /\ ~r.unhandled)
          => r.n.notices > 0

(* C10, as stated: for a puppet-authored, untagged room-message event in a  *)
(* room other than the status room, every failure of the relay ends with a  *)
(* status-room notice sent, and nothing thrown out of handleMatrixEvent.    *)
C10_OutboundFailureNoticed ==
  \A p \in Procs :
    LET r == proc[p]
    IN  (RoomMessage(r) /\ r.ev.puppet /\ ~r.ev.tagged
           /\ r.ev.tok # StatusRoomToken
           /\ Finished(r) /\ r.err # "none" /\ ~r.unhandled)
          => r.n.notices > 0 /\ r.ret # "threw"

(* C11, as stated: a puppet-authored, untagged room-message event in the    *)
(* status room, handled without any failure, results in exactly one notice  *)
(* sent to the status room.                                                 *)
C11_OneNoticePosted ==
  \A p \in Procs :
    LET r == proc[p]
    IN  (RoomMessage(r) /\ r.ev.puppet /\ ~r.ev.tagged
           /\ r.ev.tok = StatusRoomToken
           /\ Finished(r) /\ r.err = "none" /\ ~r.unhandled)
          => r.n.notices = 1

(* C12, as stated: when the image chain of handleThirdPartyRoomImageMessage *)
(* has failed (a download, read, upload or send that failed, or a payload   *)
(* with no source), exactly one fallback text has been sent, no image       *)
(* message has been sent, and the handler's promise has not rejected.       *)
ChainFailed(r) ==
  /\ r.op = "image" /\ Finished(r)
  /\ \/ r.src = "none" /\ r.err = "TypeError"
     \/ r.unhandled
     \/ r.n.fallbacks > 0

C12_FallbackSent ==
  \A p \in Procs :
    ChainFailed(proc[p])
      => /\ proc[p].n.fallbacks = 1
         /\ proc[p].n.imageSends = 0
         /\ proc[p].ret # "rejected"

(* C13, as stated: a puppet-authored, untagged image event in a room mapped *)
(* to a third-party room produces exactly one adapter.sendImageMessage call *)
(* and no adapter.sendMessage call.                                         *)
C13_OneImageCall ==
  \A p \in Procs :
    LET r == proc[p]
    IN  (RoomMessage(r) /\ r.ev.puppet /\ ~r.ev.tagged
           /\ r.ev.tok \in RoomTokens /\ r.ev.msgtype = "m.image"
           /\ Finished(r))
          => r.n.adapterImage = 1 /\ r.n.adapterText = 0

(* C14, as stated: an image payload that supplies a source (url, path or    *)
(* buffer), handled without any failure, has led to exactly one upload and  *)
(* then exactly one image message.                                          *)
C14_OneUploadOneImage ==
  \A p \in Procs :
    LET r == proc[p]
    IN  (r.op = "image" /\ Finished(r) /\ r.src \in {"url", "path", "buffer"}
           /\ r.n.fallbacks = 0 /\ ~r.unhandled)
          => r.n.uploads = 1 /\ r.n.imageSends = 1

(* C15, as stated: decoding the encoding of an identifier returns the       *)
(* identifier, whatever byte values (0..255) it is made of.                 *)
C15_RoundTrip ==
  (fun.f = "codec" /\ fun.applied) => fun.back = fun.x

(* C16, as stated: two distinct (network, identityId, thirdPartyRoomId)     *)
(* tuples, the reserved id "status_room" included, never yield the same     *)
(* alias local part.                                                        *)
C16_Injective ==
  (fun.f = "alias" /\ fun.applied /\ fun.s # fun.t) => fun.ls # fun.lt

(* C17, as stated: with the configured marker and pattern (defaults or      *)
(* overrides) a tagged text always tests as tagged, and a text that is not  *)
(* an output of the tagger never tests as tagged.                           *)
IsTagOutput(text) == \E u \in SeqsUpTo(Chars, Len(text)) : tagMatrixMessage(u) = text

C17_TaggerLaw ==
  (fun.f = "tagger" /\ fun.applied)
    => /\ fun.hitTagged
       /\ ~IsTagOutput(fun.text) => ~fun.hit

(* C18: while a setGhostAvatar call is waiting for the profile of a ghost   *)
(* whose avatar is already set, no step starts a download, an upload or an  *)
(* avatar assignment for that call, and the ghost's avatar stays as it is:  *)
(* the call ends without any of them.                                       *)
AvatarAlreadySet(r) == r.gavat = "profile" /\ ghostAvatar[r.sender]

C18_AvatarSetIsNoOp ==
  [][\A p \in Procs :
       AvatarAlreadySet(proc[p])
         => /\ proc'[p].gavat \in {"profile", "ok", "failed"}
            /\ proc'[p].n.avatarFetches = proc[p].n.avatarFetches
            /\ proc'[p].n.avatarSets = proc[p].n.avatarSets
            /\ ghostAvatar' = ghostAvatar]_vars

\* A setGhostAvatar call has found the avatar set and has ended without a
\* download or an assignment.
C18_Witness ==
  \E p \in Procs :
    /\ proc[p].n.avatarChecks = 1
    /\ proc[p].gavat = "ok"
    /\ ghostAvatar[proc[p].sender]
    /\ proc[p].n.avatarFetches = 0
    /\ proc[p].n.avatarSets = 0

(* C19, as stated: a read receipt of the puppet's own account in room R is  *)
(* forwarded to adapter.sendReadReceipt, with R's third-party room id, if   *)
(* and only if room resolution has recorded R in the room mapping; a        *)
(* receipt of another user is never forwarded.                              *)
C19_ForwardedIffRecorded ==
  \A p \in Procs :
    LET r == proc[p]
    IN  (r.op = "receipt" /\ r.receipt.adapter)
          => /\ r.n.receipts = (IF r.receipt.own /\ r.receipt.recorded THEN 1 ELSE 0)
             /\ r.n.receipts = 1
                  => r.receipt.sent = b2a(thirdPartyRooms[r.receipt.room])

(* C20, as stated: a resolution that has returned a room id has in it a     *)
(* successful puppet join of that room and a power-grant attempt after it,  *)
(* and no power grant is attempted before a join has succeeded.             *)
C20_ReadyOnlyAfterJoinAndGrant ==
  \A p \in Procs :
    LET r == proc[p]
    IN  /\ Returned(r) => (r.cur.joined = 1 /\ r.cur.grants >= 1)
        /\ r.cur.grants <= r.cur.joined

\* Lookups of the resolution that found the room.
FoundLookups(r) == r.cur.lookups - r.cur.misses

(* C20, amended: the steps of a resolution come in the order lookup,        *)
(* create if the lookup found nothing, join, grant: a join follows a lookup,*)
(* a create follows a lookup that found nothing, and a power grant follows  *)
(* a successful join, except that the status-room resolution also grants    *)
(* once after every lookup that found the room, before the join.  A         *)
(* resolution that has returned a room id has attempted the join; if the    *)
(* join succeeded the puppet is in the room and a grant was attempted after *)
(* it, and if the join failed with an error other than "No known servers"   *)
(* the room id is returned without a grant after the join.                  *)
C20_ResolutionPath ==
  \A p \in Procs :
    LET r == proc[p]
        early == IF r.rk = "status" THEN FoundLookups(r) ELSE 0
    IN  /\ r.cur.joins <= r.cur.lookups
        /\ r.cur.creates <= r.cur.misses
        /\ r.cur.joined <= r.cur.joins
        /\ r.cur.grants <= r.cur.joined + early
        /\ r.pc = "grant" => r.cur.joined = 1 /\ r.rroom \in puppetJoined
        /\ Returned(r)
             => /\ r.cur.joins >= 1
                /\ r.cur.joined <= 1
                /\ r.cur.grants = r.cur.joined + early
                /\ r.cur.joined = 1 => r.rroom \in puppetJoined

\* A resolution has returned the room id after a join that failed.
C20_Witness ==
  \E p \in Procs :
    /\ Returned(proc[p])
    /\ proc[p].cur.joins = 1
    /\ proc[p].cur.joined = 0

(* C21: every successful puppet join of a resolution is followed by a power *)
(* grant on the joined room (pending or made), and the step in which the    *)
(* grant after a join settles, whether it succeeded or failed, returns the  *)
(* room id that was joined: the resolution does not reject, no error is     *)
(* recorded and nothing is left unhandled because of the grant.             *)
GrantAfterJoinSettles(r, r2) ==
  r.pc = "grant" /\ r2.cur.grants = r.cur.grants + 1

C21_GrantFailureSwallowed ==
  [][\A p \in Procs :
       LET r == proc[p]
           r2 == proc'[p]
       IN  /\ r.cur.joined <= r.cur.grants + (IF r.pc = "grant" THEN 1 ELSE 0)
           /\ (r.pc = "join" /\ r2.cur.joined = r.cur.joined + 1)
                => r2.pc = "grant" /\ r2.rroom = r.rroom
           /\ GrantAfterJoinSettles(r, r2)
                => /\ r2.rroom = r.rroom
                   /\ r2.pc \in {"prepared", "ghostJoinStatus", "done"}
                   /\ r2.err = r.err
                   /\ r2.unhandled = r.unhandled
                   /\ r2.ret # "rejected" \/ r.ret = "rejected"
                   /\ r.rk = "room" => r2.target = r.rroom]_vars

\* A resolution has returned the room although its power grant failed.
C21_Witness ==
  \E p \in Procs :
    /\ Returned(proc[p])
    /\ proc[p].cur.joined = 1
    /\ proc[p].cur.swallowed = 1
    /\ proc[p].rroom \in puppetJoined

\* The handler has handed something to the home network.
AnySend(r) == r.n.sends + r.n.imageSends + r.n.fallbacks + r.n.uploads > 0

\* The rooms created under the status room's alias.
StatusRooms ==
  {m \in CreatedRooms :
     roomAliases[m] = <<getRoomAliasFromThirdPartyRoomId(StatusRoomToken)>>}

(* C22: for an inbound payload with a senderId the ghost's join of the      *)
(* status room has completed when its join of the target room is issued,    *)
(* and both have completed, in that order, before the handler is given the  *)
(* ghost's client and before anything is sent; for a payload without a      *)
(* senderId no ghost is provisioned or joined and what is sent is sent      *)
(* through the puppet's client.                                             *)
C22_GhostJoinsBeforeSend ==
  \A p \in Procs :
    LET r == proc[p]
    IN  Inbound(r)
          => /\ r.sender # NoSender
                  => /\ r.pc = "ghostJoinRoom"
                          => Len(r.gjoined) = 1 /\ r.gjoined[1] \in StatusRooms
                     /\ (AnySend(r) \/ r.client # "none")
                          => /\ Len(r.gjoined) = 2
                             /\ r.gjoined[1] \in StatusRooms
                             /\ r.gjoined[2] = r.target
                             /\ r.client = "ghost"
             /\ r.sender = NoSender
                  => /\ r.gjoined = <<>>
                     /\ r.gname = "none" /\ r.gavat = "none"
                     /\ r.client \in {"none", "puppet"}
                     /\ AnySend(r) => r.client = "puppet"

\* A message of a payload with a senderId has been sent.
C22_Witness ==
  \E p \in Procs :
    /\ proc[p].op = "text" /\ proc[p].sender # NoSender
    /\ proc[p].n.sends = 1
    /\ Len(proc[p].gjoined) = 2

(* C23, as stated: a payload without a senderId whose text matches the      *)
(* deduplication pattern is dropped after the room resolution, nothing      *)
(* reaching the home network for it; one whose text does not match is       *)
(* always sent (a message or an image message is issued for it).            *)
SelfOriginated(r) ==
  Inbound(r) /\ r.sender = NoSender /\ r.client = "puppet" /\ Finished(r)

C23_SelfOriginDropOrSend ==
  \A p \in Procs :
    LET r == proc[p]
    IN  SelfOriginated(r)
          => IF r.ignore THEN ~AnySend(r)
             ELSE r.n.sends + r.n.imageSends + r.n.fallbacks >= 1

(* C24, as stated: over the invocations in flight, setAvatarUrl is invoked  *)
(* at most once for a ghost.                                                *)
AvatarSetters(u) ==
  {p \in Procs : proc[p].sender = u /\ proc[p].n.avatarSets >= 1}

C24_AvatarSetAtMostOnce ==
  \A u \in UserTokens :
    /\ Cardinality(AvatarSetters(u)) <= 1
    /\ \A p \in AvatarSetters(u) : proc[p].n.avatarSets = 1

(* C25, as stated: over the invocations in flight, setRemoteUser is invoked *)
(* at most once for an encoded third-party user id.                         *)
RemoteUserWriters(u) ==
  {p \in Procs : proc[p].sender = u /\ proc[p].n.setRemoteUsers >= 1}

C25_RemoteUserWrittenOnce ==
  \A u \in UserTokens :
    /\ Cardinality(RemoteUserWriters(u)) <= 1
    /\ \A p \in RemoteUserWriters(u) : proc[p].n.setRemoteUsers = 1

(* C26, as stated: when the download or the upload of a ghost's avatar has  *)
(* failed, the handler does not reject and reports no error, and once it    *)
(* has finished the ghost has joined the status room and the target room    *)
(* and the message has been sent.                                           *)
AvatarFetchFailed(r) ==
  /\ Inbound(r) /\ r.gavat = "failed"
  /\ r.n.avatarFetches = 1 /\ r.n.avatarSets = 0

C26_AvatarFailureNonFatal ==
  \A p \in Procs :
    LET r == proc[p]
    IN  AvatarFetchFailed(r)
          => /\ r.ret # "rejected"
             /\ r.err = "none"
             /\ r.n.statusMsgs = 0
             /\ Finished(r) => Len(r.gjoined) = 2 /\ AnySend(r)

(* C27, as stated: the bot's departure from a room it has created is issued *)
(* right after the creation, before the puppet's join and the power grant,  *)
(* for every room the bot creates.                                          *)
CreatedAndGoingOn(r) ==
  r.pc \in {"avatar", "join", "grant"} /\ r.cur.creates >= 1

C27_LeaveRightAfterCreate ==
  \A p \in Procs :
    CreatedAndGoingOn(proc[p]) => proc[p].n.leaves >= 1

(* C27, amended: rooms are created by the bot (botIntent.createRoom is the  *)
(* only creation), and the bot's departure is issued at the end of a        *)
(* resolution of an ordinary room that returns a room id, after the         *)
(* puppet's join attempt and the power grant that follows a successful      *)
(* join, once in every call of the resolution that returns, whether the     *)
(* room was created or found.  No departure is issued before the resolution *)
(* returns, none when it rejects, and none by the status-room resolution.   *)
C27_LeaveWhenResolutionReturns ==
  \A p \in Procs :
    LET r == proc[p]
        c == RoomCalls(r)
    IN  Inbound(r)
          => /\ r.target = NoRoom => r.n.leaves = 0
             /\ r.target # NoRoom
                  => /\ r.n.leaves = c.deletes + 1
                     /\ c.joins >= 1
                     /\ c.grants = c.joined
                     /\ c.creates <= c.misses

\* The resolution of an ordinary room has created the room and the bot has
\* left it on return.
C27_Witness ==
  \E p \in Procs :
    /\ Inbound(proc[p])
    /\ proc[p].target # NoRoom
    /\ RoomCalls(proc[p]).creates = 1
    /\ RoomCalls(proc[p]).joined = 1
    /\ proc[p].n.leaves = 1

====
